---- MODULE Spec2Model ----
(***************************************************************************)
(* Model of ozone/find_barriers.py: the bracket selectors, the channels    *)
(* file scan, the planar interpolation, the peak extraction and the grid   *)
(* loop of main.                                                           *)
(*                                                                         *)
(* Real numbers are exact rationals <<n, d>> with d > 0 in lowest terms.   *)
(* Sequences are 1-based: Python index i is index i + 1 here.              *)
(***************************************************************************)
EXTENDS Integers, Sequences, FiniteSets, TLC

VARIABLES pc, input, output, J_ind, K_ind, barriers, events

vars == <<pc, input, output, J_ind, K_ind, barriers, events>>

(***************************************************************************)
(* Bounds of the model.                                                    *)
(***************************************************************************)
MaxJ == 60
MaxLen == 4
MaxCoef == 1
MaxCoord == 3
NumWorlds == 8

(***************************************************************************)
(* Arithmetic of Python floats on the values that occur, kept exact.       *)
(***************************************************************************)
Abs(x) == IF x < 0 THEN -x ELSE x

Min(a, b) == IF a < b THEN a ELSE b

Max(a, b) == IF a > b THEN a ELSE b

RECURSIVE GCD(_, _)
GCD(a, b) == IF b = 0 THEN a ELSE GCD(b, a % b)

Norm(n, d) ==
    LET g == GCD(Abs(n), Abs(d))
        s == IF d < 0 THEN -1 ELSE 1
    IN  <<(s * n) \div g, (s * d) \div g>>

Rat(n) == <<n, 1>>

Zero == Rat(0)

RatAdd(x, y) == Norm(x[1] * y[2] + y[1] * x[2], x[2] * y[2])

RatSub(x, y) == Norm(x[1] * y[2] - y[1] * x[2], x[2] * y[2])

RatMul(x, y) == Norm(x[1] * y[1], x[2] * y[2])

\* x / y for y # 0
RatDiv(x, y) == Norm(x[1] * y[2], x[2] * y[1])

\* int(a / b) for b > 0: true division, then truncation toward zero
IntTrunc(a, b) == IF a >= 0 THEN a \div b ELSE -((-a) \div b)

(***************************************************************************)
(* select_interpolating_Js, select_interpolating_Ks                        *)
(***************************************************************************)
select_interpolating_Js_Rounded(J) ==
    IF J <= 8 THEN <<4, 8>>
    ELSE IF J >= 52 THEN <<52, 56>>
    ELSE LET J_low == IntTrunc(J + 2, 4) * 4
             J_high == J_low + 4
         IN  <<J_low, J_high>>

select_interpolating_Js(J) ==
    IF J <= 8 THEN <<4, 8>>
    ELSE IF J >= 52 THEN <<52, 56>>
    ELSE LET J_low == IntTrunc(J, 4) * 4
             J_high == J_low + 4
         IN  <<J_low, J_high>>

step_K == 2

select_interpolating_Ks_LateEdge(J, K) ==
    LET max_K == Min(IntTrunc(J, step_K), 20)
    IN  IF K >= max_K
        THEN <<Max(max_K - step_K, 0), max_K>>
        ELSE LET K_low == IntTrunc(K, step_K) * step_K
                 K_high == K_low + step_K
             IN  <<K_low, K_high>>

select_interpolating_Ks(J, K) ==
    LET max_K == Min(IntTrunc(J, step_K), 20)
    IN  IF K >= max_K - step_K
        THEN <<Max(max_K - step_K, 0), max_K>>
        ELSE LET K_low == IntTrunc(K, step_K) * step_K
                 K_high == K_low + step_K
             IN  <<K_low, K_high>>

(***************************************************************************)
(* The variables a specification does not use keep these values.           *)
(***************************************************************************)
NoLoop ==
    /\ J_ind = 0
    /\ K_ind = 0
    /\ barriers = <<>>
    /\ events = <<>>

(***************************************************************************)
(* SpecSelect: the two selectors applied to every (J, K), 0 <= K <= J.     *)
(***************************************************************************)
InitSelect ==
    /\ pc = "ready"
    /\ \E J \in 0..MaxJ : \E K \in 0..J : input = [J |-> J, K |-> K]
    /\ output = <<>>
    /\ NoLoop

CallSelectJs ==
    /\ pc = "ready"
    /\ pc' = "Js_done"
    /\ output' = select_interpolating_Js(input.J)
    /\ UNCHANGED <<input, J_ind, K_ind, barriers, events>>

CallSelectKs ==
    /\ pc = "ready"
    /\ pc' = "Ks_done"
    /\ output' = select_interpolating_Ks(input.J, input.K)
    /\ UNCHANGED <<input, J_ind, K_ind, barriers, events>>

NextSelect == CallSelectJs \/ CallSelectKs

SpecSelect == InitSelect /\ [][NextSelect]_vars

\* C1 (as stated): for 0 <= K <= J, select_interpolating_Ks returns a bracket
\* of width exactly 2 with K_low >= 0 and K_high <= min(J div 2, 20).
C1_KBracketWidthAlways2 ==
    pc = "Ks_done" =>
        /\ output[2] - output[1] = 2
        /\ output[1] >= 0
        /\ output[2] <= Min(input.J \div 2, 20)

\* C1 (amended): for 0 <= K <= J, K_low >= 0 and K_high <= min(J div 2, 20);
\* the width is exactly 2 when J >= 4, and is J div 2 (0 or 1) when J < 4.
C1_KBracketAmended ==
    pc = "Ks_done" =>
        /\ output[1] >= 0
        /\ output[2] <= Min(input.J \div 2, 20)
        /\ input.J >= 4 => output[2] - output[1] = 2
        /\ input.J < 4 => output[2] - output[1] = input.J \div 2

C1_Witness ==
    /\ pc = "Ks_done"
    /\ input.J >= 44
    /\ input.K = 19
    /\ output = <<18, 20>>

\* C2: for J >= 0, select_interpolating_Js returns a bracket of width exactly
\* 4, and for 8 < J < 52 the bracket contains J.
C2_JBracket ==
    pc = "Js_done" =>
        /\ output[2] - output[1] = 4
        /\ (8 < input.J /\ input.J < 52) =>
               (output[1] <= input.J /\ input.J <= output[2])

C2_Witness ==
    /\ pc = "Js_done"
    /\ input.J = 51
    /\ output = <<48, 52>>

(***************************************************************************)
(* load_lowest_barrier_info.  A channels file is the sequence of its       *)
(* lines, each line the pair <<int(token 1), float(token 2)>>; positions   *)
(* are taken from the integers.                                            *)
(***************************************************************************)
NoBarriers == <<0, 0, 0>>

IsUnset(position) == position = 0

AllNonNegative(barrier_positions) ==
    \A g \in 1..3 : barrier_positions[g] >= 0

AllPositive(barrier_positions) ==
    \A g \in 1..3 : barrier_positions[g] > 0

\* The loop of lines 84-91 from line i on: the positions it ends with and
\* the number of lines it has read when it stops.
RECURSIVE ScanChannelLines(_, _, _)
ScanChannelLines(channel_lines, i, barrier_positions) ==
    IF i > Len(channel_lines)
    THEN [positions |-> barrier_positions, lines_read |-> Len(channel_lines)]
    ELSE LET group_ind == channel_lines[i][1]
             barrier_position == channel_lines[i][2]
             updated == IF IsUnset(barrier_positions[group_ind])
                        THEN [barrier_positions EXCEPT ![group_ind] = barrier_position]
                        ELSE barrier_positions
         IN  IF AllPositive(updated)
             THEN [positions |-> updated, lines_read |-> i]
             ELSE ScanChannelLines(channel_lines, i + 1, updated)

load_lowest_barrier_info(channel_lines) ==
    ScanChannelLines(channel_lines, 1, NoBarriers).positions

(***************************************************************************)
(* SpecLoad: the scan applied to every channels file of up to MaxLen       *)
(* lines with positions that are negative, zero and positive.              *)
(***************************************************************************)
Positions == {-1, 0, 1, 2}

ChannelRecords == (1..3) \X Positions

ChannelFiles == UNION {[1..n -> ChannelRecords] : n \in 0..MaxLen}

InitLoad ==
    /\ pc = "ready"
    /\ \E channel_lines \in ChannelFiles : input = [lines |-> channel_lines]
    /\ output = <<>>
    /\ NoLoop

CallLoad ==
    /\ pc = "ready"
    /\ pc' = "loaded"
    /\ output' = [positions |-> load_lowest_barrier_info(input.lines),
                  lines_read |-> ScanChannelLines(input.lines, 1, NoBarriers).lines_read]
    /\ UNCHANGED <<input, J_ind, K_ind, barriers, events>>

NextLoad == CallLoad

SpecLoad == InitLoad /\ [][NextLoad]_vars

\* The first strictly positive position of channel g from line i on, 0 if none.
RECURSIVE FirstPositive(_, _, _)
FirstPositive(channel_lines, g, i) ==
    IF i > Len(channel_lines) THEN 0
    ELSE IF channel_lines[i][1] = g /\ channel_lines[i][2] > 0
         THEN channel_lines[i][2]
         ELSE FirstPositive(channel_lines, g, i + 1)

\* C4: load_lowest_barrier_info returns, for each of the 3 channels, the first
\* strictly positive position of that channel in file order, and 0 for a
\* channel with no strictly positive position.
C4_FirstStrictlyPositive ==
    pc = "loaded" =>
        \A g \in 1..3 : output.positions[g] = FirstPositive(input.lines, g, 1)

\* The loop of lines 84-89 run over the whole file, the break of lines 90-91
\* removed.
RECURSIVE ScanWholeFile(_, _, _)
ScanWholeFile(channel_lines, i, barrier_positions) ==
    IF i > Len(channel_lines) THEN barrier_positions
    ELSE LET group_ind == channel_lines[i][1]
             barrier_position == channel_lines[i][2]
         IN  ScanWholeFile(channel_lines, i + 1,
                 IF barrier_positions[group_ind] = 0
                 THEN [barrier_positions EXCEPT ![group_ind] = barrier_position]
                 ELSE barrier_positions)

\* C9: the positions returned by the scan that breaks once all 3 channels are
\* positive equal those of the same scan run over the whole file.
C9_EarlyStopPureOptimization ==
    pc = "loaded" =>
        output.positions = ScanWholeFile(input.lines, 1, NoBarriers)

\* The break is taken before the end of the file, and what follows it would
\* have carried other values.
C9_Witness ==
    /\ pc = "loaded"
    /\ output.lines_read = 3
    /\ Len(input.lines) = 4
    /\ input.lines[4][2] # output.positions[input.lines[4][1]]

(***************************************************************************)
(* linear_interpolation_1d, linear_interpolation_2d.  A point is           *)
(* <<x, y>> or <<x, y, z>> with integer coordinates x, y (the J and K of   *)
(* the reference lattice) and a rational value in the last place.          *)
(***************************************************************************)
\* The exception of a division by zero, in the place of the quotient.
ZeroDivisionError == <<0, 0>>

linear_interpolation_1d(point1, point2, query_x) ==
    IF point2[1] - point1[1] = 0
    THEN ZeroDivisionError
    ELSE RatAdd(RatMul(RatDiv(RatSub(point2[2], point1[2]),
                              Rat(point2[1] - point1[1])),
                       Rat(query_x - point1[1])),
                point1[2])

linear_interpolation_2d_NoBaseSubtracted(point1, point2, point3, query_point) ==
    LET interp1 == linear_interpolation_1d(<<point1[1], point1[3]>>,
                                           <<point2[1], point2[3]>>, query_point[1])
        interp2 == linear_interpolation_1d(<<point1[2], point1[3]>>,
                                           <<point3[2], point3[3]>>, query_point[2])
    IN  IF interp1 = ZeroDivisionError \/ interp2 = ZeroDivisionError
        THEN ZeroDivisionError
        ELSE RatAdd(interp1, interp2)

linear_interpolation_2d(point1, point2, point3, query_point) ==
    LET interp1 == linear_interpolation_1d(<<point1[1], point1[3]>>,
                                           <<point2[1], point2[3]>>, query_point[1])
        interp2 == linear_interpolation_1d(<<point1[2], point1[3]>>,
                                           <<point3[2], point3[3]>>, query_point[2])
    IN  IF interp1 = ZeroDivisionError \/ interp2 = ZeroDivisionError
        THEN ZeroDivisionError
        ELSE RatSub(RatAdd(interp1, interp2), point1[3])

(***************************************************************************)
(* SpecPlanar: linear_interpolation_2d applied to the corners of an affine *)
(* surface a + b*J + c*K, for every bracket (zero-width and reversed ones  *)
(* included) and every query with coordinates up to MaxCoord.              *)
(***************************************************************************)
Coefs == (0..MaxCoef) \X (-MaxCoef..MaxCoef) \X (-MaxCoef..MaxCoef)

Plane(coef, J, K) == coef[1] + coef[2] * J + coef[3] * K

InitPlanar ==
    /\ pc = "ready"
    /\ \E coef \in Coefs :
       \E J_low \in 0..MaxCoord, J_high \in 0..MaxCoord :
       \E K_low \in 0..MaxCoord, K_high \in 0..MaxCoord :
       \E J \in -1..MaxCoord, K \in -1..MaxCoord :
           input = [coef |-> coef,
                    point1 |-> <<J_low, K_low, Rat(Plane(coef, J_low, K_low))>>,
                    point2 |-> <<J_high, K_low, Rat(Plane(coef, J_high, K_low))>>,
                    point3 |-> <<J_low, K_high, Rat(Plane(coef, J_low, K_high))>>,
                    query_point |-> <<J, K>>]
    /\ output = <<>>
    /\ NoLoop

CallInterpolation2d ==
    /\ pc = "ready"
    /\ pc' = "interpolated"
    /\ output' = linear_interpolation_2d(input.point1, input.point2,
                                         input.point3, input.query_point)
    /\ UNCHANGED <<input, J_ind, K_ind, barriers, events>>

NextPlanar == CallInterpolation2d

SpecPlanar == InitPlanar /\ [][NextPlanar]_vars

\* C7: on the corners of an affine surface f(J,K) = a + b*J + c*K, for every
\* bracket with J_high # J_low and K_high # K_low, linear_interpolation_2d
\* returns f(J, K) at every query (J, K), inside or outside the bracket.
C7_ExactOnPlanes ==
    (/\ pc = "interpolated"
     /\ input.point2[1] # input.point1[1]
     /\ input.point3[2] # input.point1[2]) =>
        output = Rat(Plane(input.coef, input.query_point[1], input.query_point[2]))

\* A query outside a reversed bracket on a surface that slopes both ways.
C7_Witness ==
    /\ pc = "interpolated"
    /\ input.coef = <<1, 1, -1>>
    /\ input.point1 = <<2, 1, Rat(2)>>
    /\ input.point2[1] = 0
    /\ input.point3[2] = 2
    /\ input.query_point = <<-1, 0>>
    /\ output = Rat(0)

(***************************************************************************)
(* get_symmetry_letter, get_channels_file_path, get_pathway_index          *)
(***************************************************************************)
WrongSymmetryCode == "Wrong symmetry code"

UnknownPathway == "Unknown pathway"

get_symmetry_letter(sym_code) ==
    IF sym_code = 0 THEN "S"
    ELSE IF sym_code = 1 THEN "A"
    ELSE WrongSymmetryCode

\* '{:02}'.format(n) for 0 <= n < 100: the two decimal digits
TwoDigits(n) == <<n \div 10, n % 10>>

\* The path below script_data, or the exception of get_symmetry_letter.
get_channels_file_path(molecule, J, K, sym) ==
    LET symmetry_letter == get_symmetry_letter(sym)
    IN  IF symmetry_letter = WrongSymmetryCode
        THEN [error |-> WrongSymmetryCode]
        ELSE [error |-> "",
              molecule_folder |-> <<molecule, "_full">>,
              J_folder |-> TwoDigits(J),
              K_folder |-> TwoDigits(K) \o <<symmetry_letter>>]

get_pathway_index(pathway_letter) ==
    IF pathway_letter = "B" THEN [error |-> "", index |-> 0]
    ELSE IF pathway_letter = "A" THEN [error |-> "", index |-> 1]
    ELSE IF pathway_letter = "S" THEN [error |-> "", index |-> 2]
    ELSE [error |-> UnknownPathway]

(***************************************************************************)
(* The reference table on disk that open() of line 81 reads: a file system *)
(* is a world number, which fixes the lines of every channels file and the *)
(* one file that is absent, and at most one file replaced by other lines.  *)
(***************************************************************************)
FileNotFoundError == "FileNotFoundError"

DigitsValue(digits) == digits[1] * 10 + digits[2]

ReferenceLines(world, J, K, letter) ==
    LET shift == IF letter = "A" THEN 1 ELSE 0
    IN  IF world % 3 = 1
        THEN <<<<1, 10 + shift + J + 2 * K>>, <<2, 20 + shift + 2 * J + K>>,
               <<3, 30 + shift + J>>, <<1, 99>>>>
        ELSE IF world % 3 = 2
        THEN <<<<2, 0>>, <<1, 10 + shift + ((J * K) % 7)>>, <<1, 5>>,
               <<2, 20 + ((J + K * K) % 5)>>>>
        ELSE <<<<3, -1>>, <<1, 10 + ((J * J) % 11)>>, <<2, 3 + shift + K>>,
               <<3, 8>>>>

AbsentNode(world) ==
    IF world < 3 THEN <<>> ELSE <<4 * (world - 2), 2 * ((world - 3) % 3)>>

ReadChannelsFile(env, channels_file_path) ==
    LET J == DigitsValue(channels_file_path.J_folder)
        K == DigitsValue(channels_file_path.K_folder)
    IN  IF env.replaced # <<>> /\ env.replaced.path = channels_file_path
        THEN [error |-> "", lines |-> env.replaced.lines]
        ELSE IF AbsentNode(env.world) = <<J, K>>
        THEN [error |-> FileNotFoundError]
        ELSE [error |-> "",
              lines |-> ReferenceLines(env.world, J, K, channels_file_path.K_folder[3])]

(***************************************************************************)
(* interpolate_barrier_positions_JK: the brackets, the paths built and the *)
(* files opened in order by the loops of lines 115-119, and the three      *)
(* interpolated positions (B, A, S) or the exception that ends the call.   *)
(***************************************************************************)
Ks_interp_of_Query(Js_interp, J, K) == select_interpolating_Ks(J, K)

Ks_interp_of(Js_interp, J, K) == select_interpolating_Ks(Js_interp[1], K)

\* range(len(Js_interp)) x range(len(Ks_interp)) in loop order
NodesFetched(Js_interp, Ks_interp) ==
    <<<<Js_interp[1], Ks_interp[1]>>, <<Js_interp[1], Ks_interp[2]>>,
      <<Js_interp[2], Ks_interp[1]>>, <<Js_interp[2], Ks_interp[2]>>>>

point3_FromFourthCorner(Js_interp, Ks_interp, barrier_positions_known, i) ==
    <<Js_interp[1], Ks_interp[2], Rat(barrier_positions_known[4][i])>>

point1_of(Js_interp, Ks_interp, barrier_positions_known, i) ==
    <<Js_interp[1], Ks_interp[1], Rat(barrier_positions_known[1][i])>>

point2_of(Js_interp, Ks_interp, barrier_positions_known, i) ==
    <<Js_interp[2], Ks_interp[1], Rat(barrier_positions_known[3][i])>>

point3_of(Js_interp, Ks_interp, barrier_positions_known, i) ==
    <<Js_interp[1], Ks_interp[2], Rat(barrier_positions_known[2][i])>>

interpolate_barrier_positions_JK(env, molecule, J, K, symmetry) ==
    LET Js_interp == select_interpolating_Js(J)
        Ks_interp == Ks_interp_of(Js_interp, J, K)
        nodes == NodesFetched(Js_interp, Ks_interp)
        path(n) == get_channels_file_path(molecule, nodes[n][1], nodes[n][2], symmetry)
        file(n) == ReadChannelsFile(env, path(n))
        \* the first node whose path or file raises, or one past the last node
        failing == {n \in 1..Len(nodes) :
                       path(n).error # "" \/ file(n).error # ""}
        stop == IF failing = {} THEN Len(nodes) + 1
                ELSE CHOOSE n \in failing : \A m \in failing : n <= m
        known == [n \in 1..Len(nodes) |-> load_lowest_barrier_info(file(n).lines)]
        value(i) == linear_interpolation_2d(point1_of(Js_interp, Ks_interp, known, i),
                                            point2_of(Js_interp, Ks_interp, known, i),
                                            point3_of(Js_interp, Ks_interp, known, i),
                                            <<J, K>>)
        common == [Js_interp |-> Js_interp, Ks_interp |-> Ks_interp]
    IN  IF stop <= Len(nodes)
        THEN IF path(stop).error # ""
             THEN common @@ [error |-> WrongSymmetryCode,
                             paths_built |-> [n \in 1..(stop - 1) |-> nodes[n]],
                             files_read |-> [n \in 1..(stop - 1) |-> nodes[n]],
                             barrier_positions |-> <<>>]
             ELSE common @@ [error |-> FileNotFoundError,
                             paths_built |-> [n \in 1..stop |-> nodes[n]],
                             files_read |-> [n \in 1..(stop - 1) |-> nodes[n]],
                             barrier_positions |-> <<>>]
        ELSE IF \E i \in 1..3 : value(i) = ZeroDivisionError
        THEN common @@ [error |-> "ZeroDivisionError",
                        paths_built |-> nodes,
                        files_read |-> nodes,
                        barrier_positions |-> <<>>]
        ELSE common @@ [error |-> "",
                        paths_built |-> nodes,
                        files_read |-> nodes,
                        barrier_positions |-> [i \in 1..3 |-> value(i)]]

(***************************************************************************)
(* SpecInterp: interpolate_barrier_positions_JK applied to every query     *)
(* 0 <= K <= J <= MaxJ, symmetry code 0, 1 or 2, in every world, with and  *)
(* without other lines in the file of the corner (J_high, K_high).         *)
(***************************************************************************)
OtherLines == <<<<1, 7>>, <<2, 1>>, <<3, 50>>>>

FourthCornerPath(molecule, J, K, symmetry) ==
    LET Js_interp == select_interpolating_Js(J)
        Ks_interp == select_interpolating_Ks(Js_interp[1], K)
    IN  get_channels_file_path(molecule, Js_interp[2], Ks_interp[2], symmetry)

InitInterp ==
    /\ pc = "ready"
    /\ \E J \in 0..MaxJ : \E K \in 0..J :
       \E symmetry \in 0..2, world \in 1..NumWorlds, replace \in BOOLEAN :
           input = [molecule |-> "868", J |-> J, K |-> K, symmetry |-> symmetry,
                    env |-> [world |-> world,
                             replaced |->
                                 IF replace /\ symmetry \in 0..1
                                 THEN [path |-> FourthCornerPath("868", J, K, symmetry),
                                       lines |-> OtherLines]
                                 ELSE <<>>]]
    /\ output = <<>>
    /\ NoLoop

CallInterpolateJK ==
    /\ pc = "ready"
    /\ pc' = "returned"
    /\ output' = interpolate_barrier_positions_JK(input.env, input.molecule,
                                                  input.J, input.K, input.symmetry)
    /\ UNCHANGED <<input, J_ind, K_ind, barriers, events>>

NextInterp == CallInterpolateJK

SpecInterp == InitInterp /\ [][NextInterp]_vars

ToSet(seq) == {seq[n] : n \in 1..Len(seq)}

\* C5 (as stated): a call that returns has fetched records for exactly the
\* three nodes (J_low,K_low), (J_high,K_low), (J_low,K_high); no path is built
\* and no file opened for the fourth corner (J_high,K_high).
C5_FourthCornerNeverFetched ==
    (pc = "returned" /\ output.error = "") =>
        LET Js == output.Js_interp
            Ks == output.Ks_interp
        IN  /\ ToSet(output.paths_built) =
                   {<<Js[1], Ks[1]>>, <<Js[2], Ks[1]>>, <<Js[1], Ks[2]>>}
            /\ <<Js[2], Ks[2]>> \notin ToSet(output.files_read)

\* C5 (amended): a call that returns has built the path of and read the file
\* of all four nodes, in the order (J_low,K_low), (J_low,K_high),
\* (J_high,K_low), (J_high,K_high); the lines of the fourth corner's file do
\* not change the result: with other lines in that file the three positions
\* are those of the call on the unchanged table, whenever that call returns.
C5_FourthCornerFetchedNotUsed ==
    (pc = "returned" /\ output.error = "") =>
        LET Js == output.Js_interp
            Ks == output.Ks_interp
            all4 == <<<<Js[1], Ks[1]>>, <<Js[1], Ks[2]>>,
                      <<Js[2], Ks[1]>>, <<Js[2], Ks[2]>>>>
            unchanged == interpolate_barrier_positions_JK(
                             [input.env EXCEPT !.replaced = <<>>],
                             input.molecule, input.J, input.K, input.symmetry)
        IN  /\ output.paths_built = all4
            /\ output.files_read = all4
            /\ (input.env.replaced # <<>> /\ unchanged.error = "") =>
                   output.barrier_positions = unchanged.barrier_positions

\* The fourth corner's file holds other lines, and the result is not zero.
C5_Witness ==
    /\ pc = "returned"
    /\ output.error = ""
    /\ input.env.replaced # <<>>
    /\ input.env.world = 1
    /\ input.J = 10
    /\ input.K = 3
    /\ output.files_read[4] = <<12, 4>>
    /\ output.barrier_positions[1] # Zero

\* C8: for every query 0 <= K <= J, the brackets that
\* interpolate_barrier_positions_JK passes on have J_low # J_high and
\* K_low # K_high, and no division by zero ends the call.
C8_NoDegenerateBracket ==
    pc = "returned" =>
        /\ output.Js_interp[1] # output.Js_interp[2]
        /\ output.Ks_interp[1] # output.Ks_interp[2]
        /\ output.error # "ZeroDivisionError"

\* A query below the lattice, where the K bracket is clamped to <<0, 2>>.
C8_Witness ==
    /\ pc = "returned"
    /\ input.J = 1
    /\ input.K = 1
    /\ output.Js_interp = <<4, 8>>
    /\ output.Ks_interp = <<0, 2>>
    /\ output.error = ""

(***************************************************************************)
(* find_peaks(energies, height=(-5000, 5000))[0] of scipy.signal: the      *)
(* indices of the local maxima, a flat maximum counted once at the middle  *)
(* of its plateau (rounded down), the first and last sample never a peak;  *)
(* kept when the height lies in the band, both ends included.              *)
(***************************************************************************)
HeightMin == -5000

HeightMax == 5000

IsPlateauPeak(energies, left, right) ==
    /\ 1 < left /\ left <= right /\ right < Len(energies)
    /\ \A i \in left..right : energies[i] = energies[left]
    /\ energies[left - 1] < energies[left]
    /\ energies[right + 1] < energies[right]

\* Python's (left + right) // 2 on 0-based indices is (left + right) \div 2 on
\* 1-based ones, less one, plus one.
find_peaks(energies) ==
    {p \in 1..Len(energies) :
        /\ \E left \in 1..Len(energies), right \in 1..Len(energies) :
               /\ IsPlateauPeak(energies, left, right)
               /\ p = (left + right - 2) \div 2 + 1
        /\ HeightMin <= energies[p]
        /\ energies[p] <= HeightMax}

(***************************************************************************)
(* interpolate_energies_2d: the parabola a + b*x + c*x^2 through the three *)
(* points (a least-squares fit of degree 2 to 3 points passes through      *)
(* them) and its extremum -b / 2 / c.  The three points of a peak's window *)
(* are not on a line unless the plateau is 3 samples or wider; the curves  *)
(* of the model have none.                                                 *)
(***************************************************************************)
interpolate_energies_2d(grid, energies) ==
    LET d01 == RatDiv(Rat(energies[2] - energies[1]), Rat(grid[2] - grid[1]))
        d12 == RatDiv(Rat(energies[3] - energies[2]), Rat(grid[3] - grid[2]))
        c == RatDiv(RatSub(d12, d01), Rat(grid[3] - grid[1]))
        b == RatSub(d01, RatMul(c, Rat(grid[1] + grid[2])))
    IN  RatDiv(RatDiv(RatSub(Zero, b), Rat(2)), c)

(***************************************************************************)
(* The energy curves on disk that find_barrier reads, by world: in world 1 *)
(* every state has a curve with a peak in the band, in the other worlds    *)
(* every third state has no file, and from world 3 on one state has a      *)
(* curve with no peak in the band.                                         *)
(***************************************************************************)
rho_grid == <<1, 2, 3, 4, 5>>

CurvesWithPeak ==
    <<<<0, 1, 5, 1, 0>>, <<0, 3, 4, 1, 0>>, <<0, 2, 2, 0, 1>>,
      <<0, 6000, 0, 10, 0>>>>

CurvesWithoutPeak ==
    <<<<0, 1, 2, 3, 4>>, <<0, 6000, 0, 7000, 0>>>>

PeaklessStates ==
    <<<<0, 0>>, <<2, 2>>, <<6, 4>>, <<2, 4>>, <<36, 20>>, <<64, 20>>, <<10, 0>>>>

PeaklessState(world) ==
    IF world < 3 THEN <<>>
    ELSE PeaklessStates[((world - 3) % Len(PeaklessStates)) + 1]

\* path.exists(energies_path) and np.loadtxt(energies_path)
ReadEnergies(env, J, K, sym) ==
    LET n == (J \div 2) * 11 + (K \div 2) + sym
    IN  IF PeaklessState(env.world) = <<J, K>>
        THEN [exists |-> TRUE, energies |-> CurvesWithoutPeak[(env.world % 2) + 1]]
        ELSE IF env.world > 1 /\ n % 3 = 0
        THEN [exists |-> FALSE]
        ELSE [exists |-> TRUE, energies |-> CurvesWithPeak[(n % 4) + 1]]

(***************************************************************************)
(* find_barrier                                                            *)
(***************************************************************************)
IndexError == "IndexError"

find_barrier_ZeroWhenNoPeak(env, J, K, sym, grid) ==
    LET curve == ReadEnergies(env, J, K, sym)
    IN  IF curve.exists
        THEN LET energies == curve.energies
                 peaks == find_peaks(energies)
             IN  IF peaks = {}
                 THEN [error |-> "", read |-> TRUE, barrier |-> Zero]
                 ELSE LET p == CHOOSE q \in peaks : \A r \in peaks : q <= r
                      IN  [error |-> "", read |-> TRUE,
                           barrier |-> interpolate_energies_2d(
                                           SubSeq(grid, p - 1, p + 1),
                                           SubSeq(energies, p - 1, p + 1))]
        ELSE [error |-> "", read |-> FALSE, barrier |-> Zero]

find_barrier(env, J, K, sym, grid) ==
    LET curve == ReadEnergies(env, J, K, sym)
    IN  IF curve.exists
        THEN LET energies == curve.energies
                 peaks == find_peaks(energies)
             IN  IF peaks = {}
                 THEN [error |-> IndexError, read |-> TRUE]
                 ELSE LET p == CHOOSE q \in peaks : \A r \in peaks : q <= r
                      IN  [error |-> "", read |-> TRUE,
                           barrier |-> interpolate_energies_2d(
                                           SubSeq(grid, p - 1, p + 1),
                                           SubSeq(energies, p - 1, p + 1))]
        ELSE [error |-> "", read |-> FALSE, barrier |-> Zero]

(***************************************************************************)
(* main: one run over the (K, J) grid.  molecule, sym and pathway are the  *)
(* assignments of lines 146-148, taken from the values a run may be given. *)
(* rho_info.txt is taken to exist.                                         *)
(***************************************************************************)
Range(start, stop, step) ==
    [i \in 1..((stop - start + step - 1) \div step) |-> start + (i - 1) * step]

Js == Range(0, 33, 2) \o Range(36, 65, 4)

Ks == Range(0, 21, 2)

Molecules == {"666", "868"}

SymmetryCodes == {0, 1, 2}

PathwayLetters == {"B", "A", "S", "X"}

InitMain ==
    /\ pc = "start"
    /\ \E molecule \in Molecules, sym \in SymmetryCodes :
       \E pathway \in PathwayLetters, world \in 1..NumWorlds :
           input = [molecule |-> molecule, sym |-> sym, pathway |-> pathway,
                    env |-> [world |-> world, replaced |-> <<>>]]
    /\ output = <<>>
    /\ J_ind = 0
    /\ K_ind = 0
    /\ barriers = <<>>
    /\ events = [grid_loaded |-> FALSE, dispatched |-> {}, curves_read |-> {},
                 channels_read |-> {}, written |-> FALSE, error |-> ""]

\* lines 152-153: np.zeros((len(Ks), len(Js))) and load_grid
Start ==
    /\ pc = "start"
    /\ pc' = "loop"
    /\ barriers' = [k \in 1..Len(Ks) |-> [j \in 1..Len(Js) |-> Zero]]
    /\ events' = [events EXCEPT !.grid_loaded = TRUE]
    /\ J_ind' = 1
    /\ K_ind' = 1
    /\ UNCHANGED <<input, output>>

\* The next iteration of the loops of lines 154 and 156, or the end of both.
NextCell ==
    IF K_ind < Len(Ks)
    THEN /\ K_ind' = K_ind + 1
         /\ UNCHANGED <<J_ind, pc>>
    ELSE IF J_ind < Len(Js)
    THEN /\ K_ind' = 1
         /\ J_ind' = J_ind + 1
         /\ UNCHANGED pc
    ELSE /\ pc' = "save"
         /\ UNCHANGED <<J_ind, K_ind>>

IsNonPhysical_Swapped(J, K) == J > K

IsNonPhysical(J, K) == K > J

\* lines 158-159
SkipCell ==
    /\ pc = "loop"
    /\ IsNonPhysical(Js[J_ind], Ks[K_ind])
    /\ NextCell
    /\ UNCHANGED <<input, output, barriers, events>>

\* lines 160-161
DirectCell ==
    /\ pc = "loop"
    /\ ~IsNonPhysical(Js[J_ind], Ks[K_ind])
    /\ input.molecule = "666"
    /\ LET J == Js[J_ind]
           K == Ks[K_ind]
           found == find_barrier(input.env, J, K, input.sym, rho_grid)
           seen == [events EXCEPT !.dispatched = @ \cup {<<J, K>>},
                                  !.curves_read = IF found.read
                                                  THEN @ \cup {<<J, K>>} ELSE @]
       IN  IF found.error # ""
           THEN /\ pc' = "error"
                /\ events' = [seen EXCEPT !.error = found.error]
                /\ UNCHANGED <<J_ind, K_ind, barriers>>
           ELSE /\ barriers' = [barriers EXCEPT ![K_ind][J_ind] = found.barrier]
                /\ events' = seen
                /\ NextCell
    /\ UNCHANGED <<input, output>>

\* lines 162-166
InterpolatedCell ==
    /\ pc = "loop"
    /\ ~IsNonPhysical(Js[J_ind], Ks[K_ind])
    /\ input.molecule # "666"
    /\ LET J == Js[J_ind]
           K == Ks[K_ind]
           K_sym == IF K % 2 = 0 THEN input.sym ELSE 1 - input.sym
           call == interpolate_barrier_positions_JK(input.env, input.molecule,
                                                    J, K, K_sym)
           index == get_pathway_index(input.pathway)
           seen == [events EXCEPT !.dispatched = @ \cup {<<J, K>>},
                                  !.channels_read = @ \cup ToSet(call.files_read)]
       IN  IF call.error # ""
           THEN /\ pc' = "error"
                /\ events' = [seen EXCEPT !.error = call.error]
                /\ UNCHANGED <<J_ind, K_ind, barriers>>
           ELSE IF index.error # ""
           THEN /\ pc' = "error"
                /\ events' = [seen EXCEPT !.error = index.error]
                /\ UNCHANGED <<J_ind, K_ind, barriers>>
           ELSE /\ barriers' = [barriers EXCEPT ![K_ind][J_ind] =
                                    call.barrier_positions[index.index + 1]]
                /\ events' = seen
                /\ NextCell
    /\ UNCHANGED <<input, output>>

\* line 168
Save ==
    /\ pc = "save"
    /\ pc' = "done"
    /\ output' = barriers
    /\ events' = [events EXCEPT !.written = TRUE]
    /\ UNCHANGED <<input, J_ind, K_ind, barriers>>

NextMain == Start \/ SkipCell \/ DirectCell \/ InterpolatedCell \/ Save

SpecMain == InitMain /\ [][NextMain]_vars

\* The cells of the grid, as pairs of indices into Js and Ks.
Cells == (1..Len(Js)) \X (1..Len(Ks))

\* C3: in the matrix a completed run writes, every cell with K > J holds 0, in
\* direct and in interpolated mode, and at no point of a run has a cell with
\* K > J been handed to find_barrier or interpolate_barrier_positions_JK.
C3_NonPhysicalCellsAreZero ==
    /\ \A state \in events.dispatched : state[2] <= state[1]
    /\ (pc = "done") =>
           \A cell \in Cells :
               Ks[cell[2]] > Js[cell[1]] => output[cell[2]][cell[1]] = Zero

\* A completed run in each mode whose cells with K <= J hold other values.
C3_WitnessDirect ==
    /\ pc = "done"
    /\ input.molecule = "666"
    /\ output[1][1] # Zero
    /\ output[2][1] = Zero
    /\ <<2, 2>> \in events.dispatched

C3_WitnessInterpolated ==
    /\ pc = "done"
    /\ input.molecule = "868"
    /\ output[1][1] # Zero
    /\ output[11][10] = Zero
    /\ output[11][11] # Zero

BadConfiguration ==
    input.sym \notin {0, 1} \/ input.pathway \notin {"B", "A", "S"}

\* C6: with a symmetry code other than 0 and 1 or a pathway letter other than
\* 'B', 'A', 'S', a run ends in a fatal error before the grid is loaded, before
\* any energy curve or channels file is read and before any cell is extracted
\* or interpolated, in both modes.
C6_BadConfigurationFailsFast ==
    BadConfiguration =>
        /\ ~events.grid_loaded
        /\ events.curves_read = {}
        /\ events.channels_read = {}
        /\ events.dispatched = {}
        /\ pc \in {"start", "error"}

\* C6, a consequence: with a bad configuration no run completes.  In direct
\* mode the code never looks at the two settings, and the matrix is written.
C6_NeverCompletesWithBadConfiguration ==
    BadConfiguration => pc # "done"

\* The curve file of the cell the loop is at, in direct mode.
CurveHere == ReadEnergies(input.env, Js[J_ind], Ks[K_ind], input.sym)

AtDirectCell ==
    /\ pc = "loop"
    /\ input.molecule = "666"
    /\ Ks[K_ind] <= Js[J_ind]

\* C10: in direct mode, at a cell with K <= J whose energy curve exists and has
\* no local maximum in the band, the run ends in an error at that cell: no 0 is
\* stored for it, no later cell is processed and the matrix is never written;
\* at a cell whose curve file is absent, 0 is stored and the run continues.
C10_NoPeakEndsTheRun ==
    /\ [][/\ (AtDirectCell /\ CurveHere.exists /\ find_peaks(CurveHere.energies) = {}) =>
                 /\ pc' = "error"
                 /\ events'.error = IndexError
                 /\ <<J_ind', K_ind', barriers', output'>> = <<J_ind, K_ind, barriers, output>>
          /\ (AtDirectCell /\ ~CurveHere.exists) =>
                 /\ pc' \in {"loop", "save"}
                 /\ <<J_ind', K_ind'>> # <<J_ind, K_ind>> \/ pc' = "save"
                 /\ barriers'[K_ind][J_ind] = Zero
                 /\ events'.error = ""
          /\ pc = "error" => FALSE]_vars
    /\ [](pc = "error" => (~events.written /\ output = <<>>))

\* The run has ended at the state (6, 4), whose curve has no peak in the band,
\* after going on past the state (0, 0), whose curve file is absent.
C10_Witness ==
    /\ pc = "error"
    /\ input.molecule = "666"
    /\ events.error = IndexError
    /\ <<Js[J_ind], Ks[K_ind]>> = <<6, 4>>
    /\ <<0, 0>> \in events.dispatched \ events.curves_read
    /\ <<6, 4>> \in events.curves_read
    /\ barriers[1][1] = Zero
    /\ ~events.written

====
